---- MODULE Spec2Model ----
(***************************************************************************)
(* Batch pipeline of src/pipeline.py: French audio -> Spanish text and     *)
(* optional Spanish speech.  One run of main(): resolve the inputs, build  *)
(* the engines, then the per-file loop transcribe -> write transcript ->   *)
(* translate (two hops) -> write translation -> synthesize -> re-encode -> *)
(* remove the text artifacts.                                              *)
(*                                                                         *)
(* Strings are sequences of character codes (ASCII), so that suffix        *)
(* handling, lower-casing, stripping and sorting are computed as Python    *)
(* computes them.  A path is a record [dir, name]; all files of a run live *)
(* directly in the input directory or in the out-prefix directory.         *)
(***************************************************************************)
EXTENDS Integers, Sequences, FiniteSets, TLC

\* ------------------------------------------------------------------ bounds

\* Largest number of entries of the input directory.
MaxEntries == 2

\* ----------------------------------------------------------------- strings

Dot == 46
Space == 32

\* ".wav", ".mp3", ".flac", ".m4a", ".ogg", ".oga", ".opus",
\* ".aac", ".wma", ".mp4", ".mkv", ".webm"
SUPPORTED_EXTS ==
    { <<46,119,97,118>>, <<46,109,112,51>>, <<46,102,108,97,99>>,
      <<46,109,52,97>>, <<46,111,103,103>>, <<46,111,103,97>>,
      <<46,111,112,117,115>>, <<46,97,97,99>>, <<46,119,109,97>>,
      <<46,109,112,52>>, <<46,109,107,118>>, <<46,119,101,98,109>> }

\* "wav", "mp3", "ogg", "opus", "m4a": the choices of --audio-format
FmtWav == <<119,97,118>>
AudioFormats ==
    { FmtWav, <<109,112,51>>, <<111,103,103>>, <<111,112,117,115>>, <<109,52,97>> }

\* str.lower() on one character / on a string
LowerChar(c) == IF c >= 65 /\ c <= 90 THEN c + 32 ELSE c
Lower(s) == [i \in 1..Len(s) |-> LowerChar(s[i])]

\* The ASCII characters str.isspace() accepts: "\t" "\n" "\v" "\f" "\r",
\* the separators FS GS RS US, and the space.
Whitespace == (9..13) \cup (28..31) \cup {Space}

\* str.strip() without argument: drop leading and trailing whitespace
RECURSIVE LStrip(_)
LStrip(s) == IF s # <<>> /\ Head(s) \in Whitespace THEN LStrip(Tail(s)) ELSE s
RECURSIVE RStrip(_)
RStrip(s) ==
    IF s # <<>> /\ s[Len(s)] \in Whitespace
    THEN RStrip(SubSeq(s, 1, Len(s) - 1))
    ELSE s
Strip(s) == RStrip(LStrip(s))

\* " ".join(parts)
RECURSIVE Join(_)
Join(parts) ==
    IF parts = <<>> THEN <<>>
    ELSE IF Len(parts) = 1 THEN parts[1]
    ELSE parts[1] \o <<Space>> \o Join(Tail(parts))

\* `not text or not text.strip()`
IsBlank(text) == text = <<>> \/ Strip(text) = <<>>

\* ------------------------------------------------------------------- paths

\* Index of the last "." of a name, 0 when there is none (str.rfind).
LastDot(name) ==
    LET ds == {i \in 1..Len(name) : name[i] = Dot}
    IN  IF ds = {} THEN 0 ELSE CHOOSE i \in ds : \A j \in ds : j <= i

\* PurePath.suffix: the last dot-separated part, with its dot; empty when the
\* name has no dot, starts with its only dot or ends with a dot.
Suffix(name) ==
    LET i == LastDot(name)
    IN  IF 1 < i /\ i < Len(name) THEN SubSeq(name, i, Len(name)) ELSE <<>>

\* PurePath.stem: the name without its suffix.
Stem(name) ==
    LET i == LastDot(name)
    IN  IF 1 < i /\ i < Len(name) THEN SubSeq(name, 1, i - 1) ELSE name

\* PurePath.with_suffix(suffix): REPLACES the last suffix of the name.
WithSuffix(p, suffix) ==
    [dir |-> p.dir, name |-> Stem(p.name) \o suffix]

\* Path(f"{prefix}/{stem}{tail}")
PathIn(prefix, stem, tail) == [dir |-> prefix, name |-> stem \o tail]

\* Lexicographic order of two strings (Path ordering within one directory).
RECURSIVE StrLess(_, _)
StrLess(a, b) ==
    IF b = <<>> THEN FALSE
    ELSE IF a = <<>> THEN TRUE
    ELSE IF Head(a) # Head(b) THEN Head(a) < Head(b)
    ELSE StrLess(Tail(a), Tail(b))

\* sorted(set of paths of one directory)
RECURSIVE Sorted(_)
Sorted(ps) ==
    IF ps = {} THEN <<>>
    ELSE LET m == CHOOSE p \in ps : \A q \in ps \ {p} : StrLess(p.name, q.name)
         IN  <<m>> \o Sorted(ps \ {m})

\* -------------------------------------------------------------- file system

\* The disk maps each existing path to its content [kind, of]: kind is
\* "media" (an input), "dir", "fr" / "es" (transcript / translation text),
\* "wav" (canonical waveform), "enc" (re-encoded audio) or "partial" (what a
\* failed ffmpeg run left behind); `of` is the position in the batch of the
\* file the content was derived from (0 for what was there before the run).
WriteFile(d, p, c) == [q \in (DOMAIN d) \cup {p} |-> IF q = p THEN c ELSE d[q]]
RemoveFile(d, p) == [q \in (DOMAIN d) \ {p} |-> d[q]]
Exists(d, p) == p \in DOMAIN d

InputDir == "in"
OutDir == "out"

\* None where a path is expected.
NoPath == [dir |-> "", name |-> <<>>]

\* Entries an input directory may hold: "a.mp3", "a.wav", "B.WAV", "c.txt"
\* (files) and "d.ogg" (a sub-directory).
EntryPool ==
    { [name |-> <<97,46,109,112,51>>, isFile |-> TRUE],
      [name |-> <<97,46,119,97,118>>, isFile |-> TRUE],
      [name |-> <<66,46,87,65,86>>, isFile |-> TRUE],
      [name |-> <<99,46,116,120,116>>, isFile |-> TRUE],
      [name |-> <<100,46,111,103,103>>, isFile |-> FALSE] }

LangCodes == {"fr", "en", "es"}

\* What the Recognition Engine may return: a finite sequence of segment
\* texts.  [], [" "], ["\n", "\t"], ["hi"], ["\thi\n", " "].
SegmentLists ==
    { <<>>, << <<Space>> >>, << <<10>>, <<9>> >>,
      << <<104,105>> >>, << <<9,104,105,10>>, <<Space>> >> }

\* What one translation hop may return: "", " \n", "ok".
HopOutputs == { <<>>, <<Space,10>>, <<111,107>> }

VARIABLES
    inputKind,    \* "file" | "dir" | "missing": what args.input names
    entries,      \* the entries of the input directory (or the single file)
    installed,    \* codes of the installed Argos languages
    noTts,        \* args.no_tts
    audioFormat,  \* args.audio_format
    outPrefix,    \* directory args.out_prefix names
    disk,         \* the file system
    pc,           \* position of main()
    exitCode,     \* process exit status, -1 while running
    raised,       \* what terminated the process abnormally, "none" otherwise
    missing,      \* the codes the missing-languages message lists
    files,        \* the resolved inputs
    idx,          \* 1-based position of the file being processed
    translators,  \* number of times the pivot translators were obtained
    whisperLoads, \* number of WhisperModel constructions
    ttsInits,     \* number of TTS constructions attempted
    ttsApi,       \* "none" | "tts"
    frText,       \* fr_text of the current file
    enText,       \* en_text of the current file
    esText,       \* es_text of the current file
    finalAudio,   \* final_audio of the current file: a path, or NoPath
    hops,         \* translation hops invoked for the current file, in order
    synthCalls,   \* tts_to_file calls for the current file
    ffmpegCalls,  \* os.system(ffmpeg ...) calls for the current file
    rc,           \* status of the current file's ffmpeg run, -1 before it
    unlinkFailed, \* [file, path]: the removals (unlink calls) that raised
    outcome       \* how the current file's iteration ended, "pending" before

cfgVars == <<inputKind, entries, installed, noTts, audioFormat, outPrefix>>
engineVars == <<translators, whisperLoads, ttsInits, ttsApi>>
fileVars == <<frText, enText, esText, finalAudio, hops, synthCalls, ffmpegCalls,
              rc, unlinkFailed, outcome>>
vars == <<cfgVars, engineVars, fileVars, disk, pc, exitCode, raised, missing,
          files, idx>>

InputPath(e) == [dir |-> InputDir, name |-> e.name]

Init ==
    /\ inputKind \in {"file", "dir", "missing"}
    /\ entries \in {es \in SUBSET EntryPool : Cardinality(es) <= MaxEntries}
    /\ inputKind = "missing" => entries = {}
    /\ inputKind = "file" => Cardinality(entries) = 1 /\ \A e \in entries : e.isFile
    /\ installed \in SUBSET LangCodes
    /\ noTts \in BOOLEAN
    /\ audioFormat \in AudioFormats
    /\ outPrefix \in {InputDir, OutDir}
    /\ disk = [p \in {InputPath(e) : e \in entries} |->
                 LET e == CHOOSE x \in entries : InputPath(x) = p
                 IN  [kind |-> IF e.isFile THEN "media" ELSE "dir", of |-> 0]]
    /\ pc = "gather"
    /\ exitCode = -1
    /\ raised = "none"
    /\ missing = <<>>
    /\ files = <<>>
    /\ idx = 0
    /\ translators = 0
    /\ whisperLoads = 0
    /\ ttsInits = 0
    /\ ttsApi = "none"
    /\ frText = <<>>
    /\ enText = <<>>
    /\ esText = <<>>
    /\ finalAudio = NoPath
    /\ hops = <<>>
    /\ synthCalls = 0
    /\ ffmpegCalls = 0
    /\ rc = -1
    /\ unlinkFailed = {}
    /\ outcome = "pending"

\* ------------------------------------------------------------- termination

\* `raise SystemExit("message")`: the message goes to stderr, the status is 1.
SystemExitStatus == 1
\* An exception that reaches the top of main(): traceback, status 1.
UncaughtStatus == 1

\* The process ends abnormally at `site`.
Die(site, status) ==
    /\ pc' = "exited"
    /\ exitCode' = status
    /\ raised' = site

\* --------------------------------------------------------- input resolution

\* is_supported_audio comparing the suffix as it is spelled.
is_supported_audio_case_sensitive(e) == e.isFile /\ Suffix(e.name) \in SUPPORTED_EXTS

is_supported_audio(e) == e.isFile /\ Lower(Suffix(e.name)) \in SUPPORTED_EXTS

\* gather_inputs: the resolved list, or the SystemExit it raises.
gather_inputs ==
    IF inputKind = "file" THEN
        LET e == CHOOSE x \in entries : TRUE
        IN  IF is_supported_audio(e)
            THEN [ok |-> TRUE, files |-> <<InputPath(e)>>]
            ELSE [ok |-> FALSE, error |-> "UnsupportedFormat"]
    ELSE IF inputKind = "dir" THEN
        LET fs == Sorted({InputPath(e) : e \in {x \in entries : is_supported_audio(x)}})
        IN  IF fs = <<>>
            THEN [ok |-> FALSE, error |-> "NoInputFound"]
            ELSE [ok |-> TRUE, files |-> fs]
    ELSE [ok |-> FALSE, error |-> "InputNotFound"]

\* Input resolution that goes on with whatever it found instead of exiting.
GatherInputsIgnoresErrors ==
    /\ pc = "gather"
    /\ LET r == gather_inputs
       IN  files' = IF r.ok THEN r.files ELSE <<>>
    /\ pc' = "translators"
    /\ UNCHANGED <<cfgVars, missing, engineVars, fileVars, disk, idx, exitCode, raised>>

GatherInputs ==
    /\ pc = "gather"
    /\ LET r == gather_inputs
       IN  IF r.ok
           THEN /\ files' = r.files
                /\ pc' = "translators"
                /\ UNCHANGED <<exitCode, raised>>
           ELSE /\ Die(r.error, SystemExitStatus)
                /\ UNCHANGED files
    /\ UNCHANGED <<cfgVars, missing, engineVars, fileVars, disk, idx>>

\* ------------------------------------------------------------ engine set-up

\* args.src, args.tgt (the defaults)
SrcCode == "fr"
TgtCode == "es"

\* The look-up that takes English for granted.
MissingLanguagesWithoutEnglish ==
    SelectSeq(<<SrcCode, TgtCode>>, LAMBDA c : c \notin installed)

\* ensure_argos_translators_via_english: the codes among (src, "en", tgt)
\* with no installed language, in that order.
MissingLanguages ==
    SelectSeq(<<SrcCode, "en", TgtCode>>, LAMBDA c : c \notin installed)

\* The translators ensure_argos_translators_via_english returns:
\* src.get_translation(en), en.get_translation(tgt).
PivotPath ==
    << [from |-> SrcCode, to |-> "en"], [from |-> "en", to |-> TgtCode] >>

EnsureTranslators ==
    /\ pc = "translators"
    /\ IF MissingLanguages # <<>>
       THEN /\ Die("MissingLanguages", SystemExitStatus)
            /\ missing' = MissingLanguages
            /\ UNCHANGED translators
       ELSE /\ translators' = translators + 1
            /\ pc' = "whisper"
            /\ UNCHANGED <<exitCode, raised, missing>>
    /\ UNCHANGED <<cfgVars, whisperLoads, ttsInits, ttsApi, fileVars, disk, files, idx>>

\* model = WhisperModel(...): constructed once, or the constructor raises.
LoadWhisper ==
    /\ pc = "whisper"
    /\ whisperLoads' = whisperLoads + 1
    /\ \E ok \in BOOLEAN :
         IF ok
         THEN pc' = "tts" /\ UNCHANGED <<exitCode, raised>>
         ELSE Die("WhisperModel", UncaughtStatus)
    /\ UNCHANGED <<cfgVars, missing, translators, ttsInits, ttsApi, fileVars, disk, files, idx>>

\* init_tts_or_none letting the constructor's exception out.
InitTtsFailureFatal ==
    /\ pc = "tts"
    /\ IF noTts
       THEN /\ pc' = "loop"
            /\ UNCHANGED <<ttsInits, ttsApi, exitCode, raised>>
       ELSE /\ ttsInits' = ttsInits + 1
            /\ \/ /\ ttsApi' = "tts"
                  /\ pc' = "loop"
                  /\ UNCHANGED <<exitCode, raised>>
               \/ /\ Die("TTS", UncaughtStatus)
                  /\ UNCHANGED ttsApi
    /\ UNCHANGED <<cfgVars, missing, translators, whisperLoads, fileVars, disk, files, idx>>

\* tts_api = init_tts_or_none(not args.no_tts)
InitTts ==
    /\ pc = "tts"
    /\ IF noTts
       THEN UNCHANGED <<ttsInits, ttsApi>>
       ELSE /\ ttsInits' = ttsInits + 1
            /\ \E ok \in BOOLEAN : ttsApi' = IF ok THEN "tts" ELSE "none"
    /\ pc' = "loop"
    /\ UNCHANGED <<cfgVars, missing, translators, whisperLoads, fileVars, disk, files, idx,
                   exitCode, raised>>

\* ------------------------------------------------------------ per-file loop

CurrentFile == files[idx]

\* out_fr, out_es, out_base of the current file
OutFr(f) == PathIn(outPrefix, Stem(f.name), <<46,102,114,46,116,120,116>>)
OutEs(f) == PathIn(outPrefix, Stem(f.name), <<46,101,115,46,116,120,116>>)
OutBase(f) == PathIn(outPrefix, Stem(f.name), <<46,101,115>>)
\* tmp_wav, final_path of maybe_synthesize_tts
TmpWav(f) == WithSuffix(OutBase(f), <<46,119,97,118>>)
FinalPath(f, fmt) == WithSuffix(OutBase(f), <<Dot>> \o fmt)

\* Taking the next file with the Whisper model constructed per file.
NextFileReloadsModel ==
    /\ pc = "loop"
    /\ idx < Len(files)
    /\ idx' = idx + 1
    /\ pc' = "transcribe"
    /\ whisperLoads' = IF idx >= 1 THEN whisperLoads + 1 ELSE whisperLoads
    /\ frText' = <<>>
    /\ enText' = <<>>
    /\ esText' = <<>>
    /\ finalAudio' = NoPath
    /\ hops' = <<>>
    /\ synthCalls' = 0
    /\ ffmpegCalls' = 0
    /\ rc' = -1
    /\ outcome' = "pending"
    /\ UNCHANGED <<cfgVars, missing, translators, ttsInits, ttsApi, unlinkFailed, disk, files,
                   exitCode, raised>>

\* `for idx, f in enumerate(files, 1)`: take the next file.
NextFile ==
    /\ pc = "loop"
    /\ idx < Len(files)
    /\ idx' = idx + 1
    /\ pc' = "transcribe"
    /\ frText' = <<>>
    /\ enText' = <<>>
    /\ esText' = <<>>
    /\ finalAudio' = NoPath
    /\ hops' = <<>>
    /\ synthCalls' = 0
    /\ ffmpegCalls' = 0
    /\ rc' = -1
    /\ outcome' = "pending"
    /\ UNCHANGED <<cfgVars, missing, engineVars, unlinkFailed, disk, files, exitCode, raised>>

\* The loop is exhausted: "All done.", main() returns, status 0.
AllDone ==
    /\ pc = "loop"
    /\ idx >= Len(files)
    /\ pc' = "exited"
    /\ exitCode' = 0
    /\ UNCHANGED <<cfgVars, missing, engineVars, fileVars, disk, files, idx, raised>>

\* transcribe_file: join the stripped segment texts with " ", strip.
transcribe_file(segments) ==
    Strip(Join([i \in 1..Len(segments) |-> Strip(segments[i])]))

\* Transcribe without the no-speech check: an empty transcript is persisted
\* and translated like any other.
TranscribeWithoutNoSpeechCheck ==
    /\ pc = "transcribe"
    /\ \/ /\ Die("transcribe", UncaughtStatus)
          /\ UNCHANGED <<frText, outcome>>
       \/ \E segments \in SegmentLists :
            /\ frText' = transcribe_file(segments)
            /\ outcome' = outcome
            /\ pc' = "persist_fr"
            /\ UNCHANGED <<exitCode, raised>>
    /\ UNCHANGED <<cfgVars, missing, engineVars, enText, esText, finalAudio, hops, synthCalls,
                   ffmpegCalls, rc, unlinkFailed, disk, files, idx>>

\* fr_text = transcribe_file(...); the no-speech check and its `continue`.
Transcribe ==
    /\ pc = "transcribe"
    /\ \/ /\ Die("transcribe", UncaughtStatus)
          /\ UNCHANGED <<frText, outcome>>
       \/ \E segments \in SegmentLists :
            /\ frText' = transcribe_file(segments)
            /\ IF IsBlank(frText')
               THEN outcome' = "no-speech-skipped" /\ pc' = "loop"
               ELSE outcome' = outcome /\ pc' = "persist_fr"
            /\ UNCHANGED <<exitCode, raised>>
    /\ UNCHANGED <<cfgVars, missing, engineVars, enText, esText, finalAudio, hops, synthCalls,
                   ffmpegCalls, rc, unlinkFailed, disk, files, idx>>

\* out_fr.write_text(fr_text + "\n")
PersistTranscript ==
    /\ pc = "persist_fr"
    /\ disk' = WriteFile(disk, OutFr(CurrentFile), [kind |-> "fr", of |-> idx])
    /\ pc' = "translate1"
    /\ UNCHANGED <<cfgVars, missing, engineVars, fileVars, files, idx, exitCode, raised>>

\* translate_text, first hop: en_text = fr_en.translate(fr_text)
TranslateHop1 ==
    /\ pc = "translate1"
    /\ hops' = Append(hops, [tr |-> PivotPath[1], text |-> frText])
    /\ \/ /\ Die("translate", UncaughtStatus)
          /\ UNCHANGED enText
       \/ \E out \in HopOutputs :
            /\ enText' = out
            /\ pc' = "translate2"
            /\ UNCHANGED <<exitCode, raised>>
    /\ UNCHANGED <<cfgVars, missing, engineVars, frText, esText, finalAudio, synthCalls,
                   ffmpegCalls, rc, unlinkFailed, outcome, disk, files, idx>>

\* The second hop fed with the transcript instead of the first hop's result.
TranslateHop2FromTranscript ==
    /\ pc = "translate2"
    /\ hops' = Append(hops, [tr |-> PivotPath[2], text |-> frText])
    /\ \/ /\ Die("translate", UncaughtStatus)
          /\ UNCHANGED esText
       \/ \E out \in HopOutputs :
            /\ esText' = out
            /\ pc' = IF IsBlank(out) THEN "empty_cleanup" ELSE "persist_es"
            /\ UNCHANGED <<exitCode, raised>>
    /\ UNCHANGED <<cfgVars, missing, engineVars, frText, enText, finalAudio, synthCalls,
                   ffmpegCalls, rc, unlinkFailed, outcome, disk, files, idx>>

\* translate_text, second hop: es_text = en_es.translate(en_text); then the
\* empty-translation check.
TranslateHop2 ==
    /\ pc = "translate2"
    /\ hops' = Append(hops, [tr |-> PivotPath[2], text |-> enText])
    /\ \/ /\ Die("translate", UncaughtStatus)
          /\ UNCHANGED esText
       \/ \E out \in HopOutputs :
            /\ esText' = out
            /\ pc' = IF IsBlank(out) THEN "empty_cleanup" ELSE "persist_es"
            /\ UNCHANGED <<exitCode, raised>>
    /\ UNCHANGED <<cfgVars, missing, engineVars, frText, enText, finalAudio, synthCalls,
                   ffmpegCalls, rc, unlinkFailed, outcome, disk, files, idx>>

\* The empty-translation branch without its removal of the transcript.
EmptyTranslationKeepsTranscript ==
    /\ pc = "empty_cleanup"
    /\ outcome' = "empty-translation-skipped"
    /\ pc' = "loop"
    /\ UNCHANGED <<cfgVars, missing, engineVars, frText, enText, esText, finalAudio, hops,
                   synthCalls, ffmpegCalls, rc, unlinkFailed, disk, files, idx,
                   exitCode, raised>>

\* Empty translation: remove the transcript (a failure is only logged), `continue`.
EmptyTranslationCleanup ==
    /\ pc = "empty_cleanup"
    /\ IF Exists(disk, OutFr(CurrentFile))
       THEN \/ /\ disk' = RemoveFile(disk, OutFr(CurrentFile))
               /\ UNCHANGED unlinkFailed
            \/ /\ unlinkFailed' = unlinkFailed \cup {[file |-> idx, path |-> OutFr(CurrentFile)]}
               /\ UNCHANGED disk
       ELSE UNCHANGED <<disk, unlinkFailed>>
    /\ outcome' = "empty-translation-skipped"
    /\ pc' = "loop"
    /\ UNCHANGED <<cfgVars, missing, engineVars, frText, enText, esText, finalAudio, hops,
                   synthCalls, ffmpegCalls, rc, files, idx, exitCode, raised>>

\* out_es.write_text(es_text + "\n"); then `if tts_api is not None`, with the
\* two early returns of maybe_synthesize_tts.
PersistTranslation ==
    /\ pc = "persist_es"
    /\ disk' = WriteFile(disk, OutEs(CurrentFile), [kind |-> "es", of |-> idx])
    /\ pc' = IF ttsApi # "none" /\ ~IsBlank(esText) THEN "synthesize" ELSE "cleanup"
    /\ UNCHANGED <<cfgVars, missing, engineVars, fileVars, files, idx, exitCode, raised>>

\* Synthesize, then hand every format, "wav" included, to the re-encoder.
SynthesizeAlwaysReencodes ==
    /\ pc = "synthesize"
    /\ synthCalls' = synthCalls + 1
    /\ \/ /\ Die("tts_to_file", UncaughtStatus)
          /\ UNCHANGED disk
       \/ /\ disk' = WriteFile(disk, TmpWav(CurrentFile), [kind |-> "wav", of |-> idx])
          /\ pc' = "reencode"
          /\ UNCHANGED <<exitCode, raised>>
    /\ UNCHANGED <<cfgVars, missing, engineVars, frText, enText, esText, finalAudio, hops,
                   ffmpegCalls, rc, unlinkFailed, outcome, files, idx>>

\* maybe_synthesize_tts up to tts_to_file: always into the canonical waveform.
Synthesize ==
    /\ pc = "synthesize"
    /\ synthCalls' = synthCalls + 1
    /\ \/ /\ Die("tts_to_file", UncaughtStatus)
          /\ UNCHANGED disk
       \/ /\ disk' = WriteFile(disk, TmpWav(CurrentFile), [kind |-> "wav", of |-> idx])
          /\ pc' = IF audioFormat = FmtWav THEN "rename" ELSE "reencode"
          /\ UNCHANGED <<exitCode, raised>>
    /\ UNCHANGED <<cfgVars, missing, engineVars, frText, enText, esText, finalAudio, hops,
                   ffmpegCalls, rc, unlinkFailed, outcome, files, idx>>

\* Path.rename(src, dst)
Rename(d, src, dst) ==
    IF src = dst THEN d ELSE WriteFile(RemoveFile(d, src), dst, d[src])

\* fmt == "wav": rename tmp_wav to final_path; if the rename raises, copy and
\* unlink instead (shutil.copyfile raises SameFileError when both paths name
\* the same file, and nothing catches it).
RenameWav ==
    /\ pc = "rename"
    /\ LET tmp == TmpWav(CurrentFile)
           final == FinalPath(CurrentFile, audioFormat)
       IN  \/ /\ disk' = Rename(disk, tmp, final)
              /\ finalAudio' = final
              /\ pc' = "cleanup"
              /\ UNCHANGED <<exitCode, raised>>
           \/ IF tmp = final
              THEN /\ Die("copyfile", UncaughtStatus)
                   /\ UNCHANGED <<disk, finalAudio>>
              ELSE /\ disk' = RemoveFile(WriteFile(disk, final, disk[tmp]), tmp)
                   /\ finalAudio' = final
                   /\ pc' = "cleanup"
                   /\ UNCHANGED <<exitCode, raised>>
    /\ UNCHANGED <<cfgVars, missing, engineVars, frText, enText, esText, hops, synthCalls,
                   ffmpegCalls, rc, unlinkFailed, outcome, files, idx>>

\* A status os.system returns for a command that exited with status 1.
FfmpegFailed == 256

\* Re-encode where a non-zero ffmpeg status raises instead of falling back.
ReencodeFailureRaises ==
    /\ pc = "reencode"
    /\ ffmpegCalls' = ffmpegCalls + 1
    /\ LET tmp == TmpWav(CurrentFile)
           final == FinalPath(CurrentFile, audioFormat)
           encoded == WriteFile(disk, final, [kind |-> "enc", of |-> idx])
       IN  \/ /\ rc' = FfmpegFailed
              /\ Die("ffmpeg", UncaughtStatus)
              /\ UNCHANGED <<disk, finalAudio, unlinkFailed>>
           \/ /\ rc' = 0
              /\ disk' = RemoveFile(encoded, tmp)
              /\ finalAudio' = final
              /\ pc' = "cleanup"
              /\ UNCHANGED <<exitCode, raised, unlinkFailed>>
    /\ UNCHANGED <<cfgVars, missing, engineVars, frText, enText, esText, hops, synthCalls,
                   outcome, files, idx>>

\* Re-encode that leaves the canonical waveform in place after a successful
\* conversion.
ReencodeKeepsWaveform ==
    /\ pc = "reencode"
    /\ ffmpegCalls' = ffmpegCalls + 1
    /\ LET tmp == TmpWav(CurrentFile)
           final == FinalPath(CurrentFile, audioFormat)
       IN  \/ /\ rc' = FfmpegFailed
              /\ finalAudio' = tmp
              /\ pc' = "cleanup"
              /\ UNCHANGED <<disk, exitCode, raised, unlinkFailed>>
           \/ /\ rc' = 0
              /\ disk' = WriteFile(disk, final, [kind |-> "enc", of |-> idx])
              /\ finalAudio' = final
              /\ pc' = "cleanup"
              /\ UNCHANGED <<exitCode, raised, unlinkFailed>>
    /\ UNCHANGED <<cfgVars, missing, engineVars, frText, enText, esText, hops, synthCalls,
                   outcome, files, idx>>

\* fmt != "wav": rc = os.system(ffmpeg ...).  rc != 0: keep the waveform and
\* return it; the failed run may or may not have left a file at final_path,
\* and nothing removes it.  rc == 0: unlink the waveform (an unlink that
\* raises is not caught) and return final_path.
Reencode ==
    /\ pc = "reencode"
    /\ ffmpegCalls' = ffmpegCalls + 1
    /\ LET tmp == TmpWav(CurrentFile)
           final == FinalPath(CurrentFile, audioFormat)
           encoded == WriteFile(disk, final, [kind |-> "enc", of |-> idx])
       IN  \/ /\ rc' = FfmpegFailed
              /\ finalAudio' = tmp
              /\ pc' = "cleanup"
              /\ UNCHANGED <<disk, exitCode, raised, unlinkFailed>>
           \/ /\ rc' = FfmpegFailed
              /\ disk' = WriteFile(disk, final, [kind |-> "partial", of |-> idx])
              /\ finalAudio' = tmp
              /\ pc' = "cleanup"
              /\ UNCHANGED <<exitCode, raised, unlinkFailed>>
           \/ /\ rc' = 0
              /\ disk' = RemoveFile(encoded, tmp)
              /\ finalAudio' = final
              /\ pc' = "cleanup"
              /\ UNCHANGED <<exitCode, raised, unlinkFailed>>
           \/ /\ rc' = 0
              /\ disk' = encoded
              /\ unlinkFailed' = unlinkFailed \cup {[file |-> idx, path |-> tmp]}
              /\ Die("unlink_wav", UncaughtStatus)
              /\ UNCHANGED finalAudio
    /\ UNCHANGED <<cfgVars, missing, engineVars, frText, enText, esText, hops, synthCalls,
                   outcome, files, idx>>

\* The final try-block without its removal of out_es.
CleanupResultsTranscriptOnly(d, fr, es) ==
    {[disk |-> IF Exists(d, fr) THEN RemoveFile(d, fr) ELSE d, failed |-> {}]}
    \cup (IF Exists(d, fr) THEN {[disk |-> d, failed |-> {fr}]} ELSE {})

\* The results [disk, failed] the final try-block can have: unlink out_fr if
\* it exists, then out_es if it exists; the first unlink that raises ends the
\* block (the except clause only logs).
CleanupResults(d, fr, es) ==
    LET afterFr == IF Exists(d, fr) THEN RemoveFile(d, fr) ELSE d
        afterEs == IF Exists(afterFr, es) THEN RemoveFile(afterFr, es) ELSE afterFr
    IN  {[disk |-> afterEs, failed |-> {}]}
        \cup (IF Exists(d, fr) THEN {[disk |-> d, failed |-> {fr}]} ELSE {})
        \cup (IF Exists(afterFr, es) THEN {[disk |-> afterFr, failed |-> {es}]} ELSE {})

\* "Cleanup .txt artifacts", the end of the loop body.
Cleanup ==
    /\ pc = "cleanup"
    /\ \E r \in CleanupResults(disk, OutFr(CurrentFile), OutEs(CurrentFile)) :
         /\ disk' = r.disk
         /\ unlinkFailed' = unlinkFailed \cup {[file |-> idx, path |-> p] : p \in r.failed}
    /\ outcome' = "speech-detected-and-completed"
    /\ pc' = "loop"
    /\ UNCHANGED <<cfgVars, missing, engineVars, frText, enText, esText, finalAudio, hops,
                   synthCalls, ffmpegCalls, rc, files, idx, exitCode, raised>>

Next ==
    \/ GatherInputs
    \/ EnsureTranslators
    \/ LoadWhisper
    \/ InitTts
    \/ NextFile
    \/ AllDone
    \/ Transcribe
    \/ PersistTranscript
    \/ TranslateHop1
    \/ TranslateHop2
    \/ EmptyTranslationCleanup
    \/ PersistTranslation
    \/ Synthesize
    \/ RenameWav
    \/ Reencode
    \/ Cleanup

Spec == Init /\ [][Next]_vars

\* The runs of a provisioned installation: every language pack of the pivot
\* is installed.
ProvisionedInit == Init /\ installed = LangCodes

\* The process is single-threaded and sequential: as long as a statement is
\* left to run, and the call it makes returns or raises, it runs.
FairSpec == ProvisionedInit /\ [][Next]_vars /\ WF_vars(Next)

TypeOK ==
    /\ pc \in {"gather", "translators", "whisper", "tts", "loop", "transcribe",
               "persist_fr", "translate1", "translate2", "empty_cleanup",
               "persist_es", "synthesize", "rename", "reencode", "cleanup", "exited"}
    /\ exitCode \in {-1, 0, 1}
    /\ idx \in 0..Len(files)
    /\ outcome \in {"pending", "no-speech-skipped", "empty-translation-skipped",
                    "speech-detected-and-completed"}

\* ------------------------------------------------------------------ claims

\* Paths holding a transcript or translation text derived from file i.
TextArtifactsOf(i) ==
    {p \in DOMAIN disk : disk[p].of = i /\ disk[p].kind \in {"fr", "es"}}
\* Paths holding audio synthesized for file i.
AudioArtifactsOf(i) ==
    {p \in DOMAIN disk : disk[p].of = i /\ disk[p].kind \in {"wav", "enc"}}

\* The collaborator calls: recognition, translation, synthesis.
CollaboratorSites == {"transcribe", "translate", "tts_to_file"}

\* C1: when a collaborator call raises while file N is processed, the batch
\* still goes on to file N+1 (every file is attempted) and the process exits
\* with status 0.
C1_CollaboratorFailureIsolated ==
    (pc = "exited" /\ raised \in CollaboratorSites)
        => (exitCode = 0 /\ idx = Len(files))

\* C2: a file whose recognition output is empty or whitespace-only ends as
\* no-speech-skipped: no translation hop, no synthesis and no re-encode was
\* invoked for it, and no transcript or translation text of it is on disk
\* (nothing at all is at its text paths unless an earlier file's removal
\* raised).
C2_NoSpeechSkipped ==
    (idx >= 1 /\ pc # "transcribe" /\ raised # "transcribe" /\ IsBlank(frText))
        => /\ outcome = "no-speech-skipped"
           /\ pc \in {"loop", "exited"}
           /\ hops = <<>>
           /\ synthCalls = 0
           /\ ffmpegCalls = 0
           /\ TextArtifactsOf(idx) = {}
           /\ AudioArtifactsOf(idx) = {}
           /\ unlinkFailed = {}
                => /\ ~Exists(disk, OutFr(CurrentFile))
                   /\ ~Exists(disk, OutEs(CurrentFile))

\* C2 witness: the second file of a batch was skipped for lack of speech after
\* the first one had produced audio.
C2_Witness ==
    /\ idx = 2
    /\ pc = "loop"
    /\ outcome = "no-speech-skipped"
    /\ AudioArtifactsOf(1) # {}

\* The translation of the current file came back empty or whitespace-only.
TranslationCameBackBlank ==
    Len(hops) = 2 /\ raised # "translate" /\ IsBlank(esText)

\* C3 as stated: a file whose translation is empty or whitespace-only ends as
\* empty-translation-skipped, synthesis is not attempted and neither its
\* transcript nor its translation text remains on disk afterwards.
C3_EmptyTranslationLeavesNothing ==
    (TranslationCameBackBlank /\ pc # "empty_cleanup")
        => /\ outcome = "empty-translation-skipped"
           /\ synthCalls = 0
           /\ TextArtifactsOf(idx) = {}

\* C3 amended: as above, except that the transcript remains on disk when its
\* removal raised (which is only logged).
C3_EmptyTranslationSkipped ==
    (TranslationCameBackBlank /\ pc # "empty_cleanup")
        => /\ outcome = "empty-translation-skipped"
           /\ pc \in {"loop", "exited"}
           /\ synthCalls = 0
           /\ ffmpegCalls = 0
           /\ AudioArtifactsOf(idx) = {}
           /\ \A p \in TextArtifactsOf(idx) :
                /\ disk[p].kind = "fr"
                /\ [file |-> idx, path |-> p] \in unlinkFailed

\* C3 witness: an empty translation was skipped and the transcript is gone.
C3_Witness ==
    /\ TranslationCameBackBlank
    /\ outcome = "empty-translation-skipped"
    /\ ttsApi = "tts"
    /\ TextArtifactsOf(idx) = {}
    /\ unlinkFailed = {}

\* C4: when synthesis raises for a file, its transcript and translation are
\* still removed, the batch continues with the next file and the run is not
\* terminated by the failure.
C4_SynthesisFailureNotFatal ==
    raised = "tts_to_file"
        => (exitCode = 0 /\ idx = Len(files) /\ TextArtifactsOf(idx) = {})

\* C5: for a format other than wav, when ffmpeg exits non-zero the file is not
\* failed: the canonical waveform stays on disk and is the reported final
\* audio, the file ends as speech-detected-and-completed after cleanup and
\* the run goes on.
C5_ReencodeFailureKeepsWav ==
    (rc # -1 /\ rc # 0)
        => /\ audioFormat # FmtWav
           /\ raised = "none"
           /\ exitCode \in {-1, 0}
           /\ finalAudio = TmpWav(CurrentFile)
           /\ Suffix(finalAudio.name) = <<46,119,97,118>>
           /\ Exists(disk, finalAudio)
           /\ disk[finalAudio] = [kind |-> "wav", of |-> idx]
           /\ pc \in {"cleanup", "loop", "exited"}
           /\ pc # "cleanup" => outcome = "speech-detected-and-completed"

\* C5 witness: ffmpeg failed for a file that is not the last one; the file has
\* been cleaned up and the loop is about to take the next file.
C5_Witness ==
    /\ rc = FfmpegFailed
    /\ pc = "loop"
    /\ idx < Len(files)
    /\ outcome = "speech-detected-and-completed"
    /\ TextArtifactsOf(idx) = {}

\* C6: with --audio-format wav the re-encode process is never invoked; the
\* canonical waveform is renamed to the final path, which then holds it.
C6_WavNeverReencodes ==
    audioFormat = FmtWav
        => /\ ffmpegCalls = 0
           /\ rc = -1
           /\ pc # "reencode"
           /\ finalAudio # NoPath
                => /\ finalAudio = FinalPath(CurrentFile, FmtWav)
                   /\ Exists(disk, finalAudio)
                   /\ disk[finalAudio] = [kind |-> "wav", of |-> idx]
                   /\ \A p \in AudioArtifactsOf(idx) : p = finalAudio

\* C6 witness: a wav run delivered the final audio of its second file.
C6_Witness ==
    /\ audioFormat = FmtWav
    /\ idx = 2
    /\ pc = "loop"
    /\ finalAudio # NoPath
    /\ synthCalls = 1

\* The final speech path the documentation names: <out-prefix>/<stem>.es.<fmt>
DocumentedFinalPath(f, fmt) ==
    PathIn(outPrefix, Stem(f.name), <<46,101,115>> \o <<Dot>> \o fmt)

\* C7: with synthesis enabled and initialized, a file that was not skipped
\* (and whose re-encode, if any, succeeded) has exactly one final speech
\* file, at <out-prefix>/<stem>.es.<audio-format>.
C7_FinalSpeechPath ==
    (outcome = "speech-detected-and-completed" /\ ttsApi = "tts" /\ rc \in {-1, 0})
        => /\ finalAudio = DocumentedFinalPath(CurrentFile, audioFormat)
           /\ AudioArtifactsOf(idx) = {finalAudio}

\* C8: in a --no-tts run the Synthesis Engine is never constructed or invoked
\* and ffmpeg is never run, so no speech file is created; and once the run
\* has ended no transcript or translation text remains on disk.
C8_NoTtsLeavesNothing ==
    noTts
        => /\ ttsInits = 0
           /\ ttsApi = "none"
           /\ synthCalls = 0
           /\ ffmpegCalls = 0
           /\ \A p \in DOMAIN disk : disk[p].kind \notin {"wav", "enc"}
           /\ pc = "exited" => \A p \in DOMAIN disk : disk[p].kind \notin {"fr", "es"}

\* Text artifacts of files before the current one.
EarlierTextArtifacts ==
    {p \in DOMAIN disk : disk[p].kind \in {"fr", "es"} /\ disk[p].of < idx}

\* C9 as stated: whenever the pipeline starts processing a file, no
\* transcript or translation text of an earlier file of the batch is on disk.
C9_NoEarlierIntermediates ==
    pc = "transcribe" => EarlierTextArtifacts = {}

\* C9 amended: a transcript or translation text of an earlier file is on disk
\* only if a removal raised (and was logged) during that file's cleanup.
C9_EarlierIntermediatesOnlyAfterFailedRemoval ==
    \A p \in EarlierTextArtifacts : \E u \in unlinkFailed : u.file = disk[p].of

\* C9 witness: the second file starts after the first one delivered audio and
\* had both its text files removed.
C9_Witness ==
    /\ pc = "transcribe"
    /\ idx = 2
    /\ AudioArtifactsOf(1) # {}
    /\ EarlierTextArtifacts = {}
    /\ unlinkFailed = {}

\* C10: once the loop has taken its first file, the pivot translators and the
\* Whisper model have been constructed exactly once and the TTS engine
\* exactly once if enabled (never with --no-tts), whatever the number of
\* files; the counts never change inside the loop.
C10_EnginesConstructedOnce ==
    idx >= 1
        => /\ translators = 1
           /\ whisperLoads = 1
           /\ ttsInits = (IF noTts THEN 0 ELSE 1)

\* C10 witness: a two-file batch with synthesis enabled ran to its end.
C10_Witness ==
    /\ pc = "exited"
    /\ exitCode = 0
    /\ Len(files) = 2
    /\ idx = 2
    /\ ~noTts
    /\ ttsApi = "tts"

\* Startup failures: the three of input resolution, and provisioning.
ResolutionErrors == {"UnsupportedFormat", "NoInputFound", "InputNotFound"}
FatalErrors == ResolutionErrors \cup {"MissingLanguages"}

\* The name ends with a supported extension, whatever the case of its letters,
\* and has something before it.
HasSupportedExtension(name) ==
    \E ext \in SUPPORTED_EXTS :
        /\ Len(name) > Len(ext)
        /\ Lower(SubSeq(name, Len(name) - Len(ext) + 1, Len(name))) = ext

\* The entries of the input that qualify as media files.
QualifyingInputs ==
    {InputPath(e) : e \in {x \in entries : x.isFile /\ HasSupportedExtension(x.name)}}

\* Nothing of the batch has happened: no file taken, no engine built, nothing
\* written.
NothingProcessed ==
    /\ idx = 0
    /\ whisperLoads = 0
    /\ ttsInits = 0
    /\ hops = <<>>
    /\ \A p \in DOMAIN disk : disk[p].of = 0

\* C11 as stated: a fatal input-resolution error or a missing language pack
\* terminates the process with exit code 2, before any file is processed.
C11_FatalExitsWithTwo ==
    raised \in FatalErrors => (pc = "exited" /\ exitCode = 2 /\ NothingProcessed)

\* C11 amended: an input that cannot be resolved, or a missing language pack,
\* terminates the process with exit code 1 (SystemExit with a message),
\* before any file is processed.
C11_FatalExitsWithOne ==
    /\ (pc # "gather" /\ QualifyingInputs = {}) => raised \in ResolutionErrors
    /\ (pc \notin {"gather", "translators"} /\ ~(LangCodes \subseteq installed))
            => raised \in FatalErrors
    /\ raised \in FatalErrors => (pc = "exited" /\ exitCode = 1 /\ NothingProcessed)

\* C11 witness: two files were resolved and the run ended on a missing pack.
C11_Witness ==
    /\ raised = "MissingLanguages"
    /\ Len(files) = 2
    /\ exitCode = 1

\* C12: the resolver gives, for a single file, that file iff its extension is
\* supported (case-insensitively) and UnsupportedFormat otherwise; for a
\* directory, exactly its entries that are files with a supported extension,
\* in increasing order of name, and NoInputFound when there is none; for a
\* path that does not exist, InputNotFound.
C12_InputResolver ==
    pc # "gather" =>
        /\ inputKind = "missing" => (raised = "InputNotFound" /\ files = <<>>)
        /\ (inputKind = "file" /\ QualifyingInputs = {})
                => (raised = "UnsupportedFormat" /\ files = <<>>)
        /\ (inputKind = "dir" /\ QualifyingInputs = {})
                => (raised = "NoInputFound" /\ files = <<>>)
        /\ QualifyingInputs # {} =>
                /\ raised \notin ResolutionErrors
                /\ {files[i] : i \in 1..Len(files)} = QualifyingInputs
                /\ Len(files) = Cardinality(QualifyingInputs)
                /\ \A i, j \in 1..Len(files) :
                        i < j => StrLess(files[i].name, files[j].name)

\* C12 witness: a directory holding "a.mp3" and "B.WAV" resolved to B.WAV,
\* a.mp3 in that order.
C12_Witness ==
    /\ inputKind = "dir"
    /\ files = << [dir |-> InputDir, name |-> <<66,46,87,65,86>>],
                  [dir |-> InputDir, name |-> <<97,46,109,112,51>>] >>

\* Synthesis was enabled and the construction of the engine failed.
TtsInitFailed == ~noTts /\ ttsInits = 1 /\ ttsApi = "none"

\* C13: when synthesis is enabled and the Synthesis Engine fails to
\* initialize, the batch is not aborted: the loop is entered and, unless a
\* later call raises, every resolved file is taken and the run exits 0; a
\* completed file was transcribed and translated by both hops; synthesis and
\* re-encode are never invoked and no audio is written.
C13_TtsInitFailureDegrades ==
    TtsInitFailed
        => /\ raised # "TTS"
           /\ pc = "exited" => idx >= 1
           /\ (pc = "exited" /\ raised = "none") => (exitCode = 0 /\ idx = Len(files))
           /\ outcome = "speech-detected-and-completed"
                => (Len(hops) = 2 /\ ~IsBlank(frText) /\ ~IsBlank(esText))
           /\ synthCalls = 0
           /\ ffmpegCalls = 0
           /\ pc \notin {"synthesize", "rename", "reencode"}
           /\ finalAudio = NoPath
           /\ \A p \in DOMAIN disk : disk[p].kind \notin {"wav", "enc"}

\* C13 witness: after a failed engine construction a two-file batch ran to
\* its end, the last file completed as text only.
C13_Witness ==
    /\ TtsInitFailed
    /\ pc = "exited"
    /\ exitCode = 0
    /\ Len(files) = 2
    /\ idx = 2
    /\ outcome = "speech-detected-and-completed"

\* C14: the cleanup attempts the removal of the translation even when the
\* removal of the transcript raised: a text file of a completed file is still
\* on disk only if its own removal was attempted and raised; and a removal
\* failure never ends the run.
C14_BothRemovalsAttempted ==
    outcome = "speech-detected-and-completed"
        => /\ raised = "none"
           /\ \A p \in TextArtifactsOf(idx) : [file |-> idx, path |-> p] \in unlinkFailed

\* Files on disk holding audio produced for file i, finished or not.
AudioFilesOf(i) ==
    {p \in DOMAIN disk : disk[p].of = i /\ disk[p].kind \in {"wav", "enc", "partial"}}

\* C15 as stated: after synthesis and re-encode exactly one audio file exists
\* for the input: the converted file when ffmpeg exited 0 (the canonical
\* waveform is deleted), the canonical waveform when it did not; never both.
C15_ExactlyOneAudioFile ==
    rc # -1
        => AudioFilesOf(idx) =
             {IF rc = 0 THEN FinalPath(CurrentFile, audioFormat) ELSE TmpWav(CurrentFile)}

\* C15 amended: when ffmpeg exits 0 the converted file exists, and the
\* canonical waveform is gone unless its removal raised, in which case both
\* files exist; when ffmpeg exits non-zero the canonical waveform is kept and
\* returned, and whatever the failed run left at the final path stays.
C15_WaveformRemovedAfterConversion ==
    LET tmp == TmpWav(CurrentFile)
        final == FinalPath(CurrentFile, audioFormat)
    IN  /\ rc = 0 =>
            /\ Exists(disk, final)
            /\ disk[final] = [kind |-> "enc", of |-> idx]
            /\ AudioFilesOf(idx) \subseteq {final, tmp}
            /\ Exists(disk, tmp) <=> [file |-> idx, path |-> tmp] \in unlinkFailed
            /\ ~Exists(disk, tmp) => finalAudio = final
        /\ rc \notin {-1, 0} =>
            /\ Exists(disk, tmp)
            /\ disk[tmp] = [kind |-> "wav", of |-> idx]
            /\ finalAudio = tmp
            /\ AudioFilesOf(idx) \subseteq {final, tmp}
            /\ final \in AudioFilesOf(idx) => disk[final].kind = "partial"

\* C15 witness: a conversion succeeded and only the converted file is left.
C15_Witness ==
    /\ rc = 0
    /\ pc = "loop"
    /\ AudioFilesOf(idx) = {FinalPath(CurrentFile, audioFormat)}
    /\ finalAudio = FinalPath(CurrentFile, audioFormat)

\* C16: for a file with a non-empty transcript, translation is exactly two
\* engine calls in this order: source->English on the transcript, then
\* English->target on the result of the first hop; no direct source->target
\* translator is ever invoked, and a file without speech is not translated.
C16_TwoHopPivot ==
    /\ Len(hops) <= 2
    /\ \A i \in 1..Len(hops) : hops[i].tr # [from |-> SrcCode, to |-> TgtCode]
    /\ Len(hops) >= 1 =>
          (hops[1] = [tr |-> [from |-> SrcCode, to |-> "en"], text |-> frText]
           /\ ~IsBlank(frText))
    /\ Len(hops) = 2 =>
          hops[2] = [tr |-> [from |-> "en", to |-> TgtCode], text |-> enText]
    /\ pc = "translate2" => Len(hops) = 1
    /\ pc \in {"empty_cleanup", "persist_es", "synthesize", "rename", "reencode",
               "cleanup"} => Len(hops) = 2
    /\ outcome \in {"empty-translation-skipped", "speech-detected-and-completed"}
          => Len(hops) = 2
    /\ outcome = "no-speech-skipped" => hops = <<>>

\* C16 witness: a file was translated, "hi" by the first hop and its result
\* "ok" by the second.
C16_Witness ==
    /\ outcome = "speech-detected-and-completed"
    /\ Len(hops) = 2
    /\ hops[1].text = <<104,105>>
    /\ hops[2].text = <<111,107>>

\* The codes the pivot needs.
PivotCodes == {SrcCode, "en", TgtCode}

\* C17: pivot initialization fails fatally iff one of src, "en", tgt is not
\* installed; the list it reports is exactly the codes among them that are
\* not installed; and in that run neither the Recognition Engine nor the
\* Synthesis Engine is ever initialized and no translator is obtained.
C17_MissingPacksReported ==
    /\ (pc \notin {"gather", "translators"} /\ raised \notin ResolutionErrors)
          => (raised = "MissingLanguages" <=> ~(PivotCodes \subseteq installed))
    /\ raised # "MissingLanguages" => missing = <<>>
    /\ raised = "MissingLanguages" =>
          /\ missing # <<>>
          /\ {missing[i] : i \in 1..Len(missing)} = PivotCodes \ installed
          /\ Len(missing) = Cardinality(PivotCodes \ installed)
          /\ pc = "exited"
          /\ exitCode # 0
          /\ translators = 0
          /\ whisperLoads = 0
          /\ ttsInits = 0
          /\ ttsApi = "none"
          /\ idx = 0

\* C17 witness: only the source language is installed, and "en" and "es" are
\* reported, in that order.
C17_Witness ==
    /\ raised = "MissingLanguages"
    /\ installed = {"fr"}
    /\ missing = <<"en", "es">>
    /\ ~noTts

TerminalOutcomes ==
    {"no-speech-skipped", "empty-translation-skipped", "speech-detected-and-completed"}

\* Where a run ends when one of the steps 1-4 fails (input resolution,
\* translation provisioning, construction of the recognition engine).
SetupSites == FatalErrors \cup {"WhisperModel"}

\* C18: once steps 1-4 have succeeded the run terminates; the files are taken
\* one by one in resolved order, each only after the previous one reached its
\* terminal outcome; and when every collaborator call returned the run exits
\* 0 with every resolved file attempted, whatever was skipped.
C18_RunTerminates ==
    /\ []((pc = "loop" /\ idx = 0) => <>(pc = "exited"))
    /\ [][idx' # idx =>
            /\ idx' = idx + 1
            /\ pc = "loop" /\ pc' = "transcribe"
            /\ idx >= 1 => outcome \in TerminalOutcomes
            /\ files' = files]_vars
    /\ [][(pc # "loop" /\ pc' = "loop" /\ idx >= 1) => outcome' \in TerminalOutcomes]_vars
    /\ []((pc = "exited" /\ raised \notin SetupSites \cup CollaboratorSites)
            => (exitCode = 0 /\ idx = Len(files) /\ outcome \in TerminalOutcomes))

\* The output paths main() and maybe_synthesize_tts derive for resolved file f.
OutputPathsOf(f) ==
    {OutFr(f), OutEs(f), TmpWav(f), FinalPath(f, audioFormat)}

\* C19: two distinct input files of one batch never write to the same output
\* path: their transcript, translation, waveform and final audio paths are
\* pairwise different, also when they share a stem (a.mp3 and a.wav).
C19_DistinctInputsDistinctOutputs ==
    \A i, j \in 1..Len(files) :
        i # j =>
            /\ OutFr(files[i]) # OutFr(files[j])
            /\ OutEs(files[i]) # OutEs(files[j])
            /\ FinalPath(files[i], audioFormat) # FinalPath(files[j], audioFormat)
            /\ OutputPathsOf(files[i]) \cap OutputPathsOf(files[j]) = {}

\* C20: no input media file is ever written, renamed or deleted: every
\* resolved input keeps its original content, and the waveform path and the
\* final audio path derived for any file differ from every resolved input
\* path, whatever the out-prefix and the audio format.
C20_InputsNeverTouched ==
    \A i \in 1..Len(files) :
        /\ Exists(disk, files[i])
        /\ disk[files[i]] = [kind |-> "media", of |-> 0]
        /\ \A j \in 1..Len(files) :
              /\ TmpWav(files[j]) # files[i]
              /\ FinalPath(files[j], audioFormat) # files[i]

====
